---- MODULE Spec2Model ----
(***************************************************************************)
(* The in-memory session store of the collaboration server                 *)
(* (crates/collab/src/rpc/store.rs): connections, users, rooms, projects   *)
(* and channels, and the operations that keep them cross-indexed.          *)
(*                                                                         *)
(* Every store operation is an operator  op(s, args)  from a store value s *)
(* to a record [store, ok, val]: the store after the call, whether the     *)
(* call returned Ok/Some, and the value (or error message) it returned.    *)
(* The actions apply one operation to the current store.                   *)
(***************************************************************************)
EXTENDS Integers, Sequences, FiniteSets, TLC

\* ------------------------------------------------------------------ bounds
MaxConnections == 2
MaxUsers == 2
MaxProjects == 1
MaxChannels == 2
MaxRooms == 2
MaxReceipts == 2
MaxParticipants == 2
MaxReplicaId == 2
MaxLanguageServers == 1
\* Rooms and receipts per project where connection ids are used again.
MaxRoomsAnyId == 1
MaxReceiptsAnyId == 1

ConnectionIds == 1..MaxConnections
UserIds == 1..MaxUsers
ProjectIds == 1..MaxProjects
ChannelIds == 1..MaxChannels

\* ----------------------------------------------------------------- helpers
\* BTreeMap / HashMap as functions with a finite domain.
EmptyMap == [k \in {} |-> TRUE]
Put(m, k, v) == [x \in (DOMAIN m) \cup {k} |-> IF x = k THEN v ELSE m[x]]
Remove(m, k) == [x \in (DOMAIN m) \ {k} |-> m[x]]
Has(m, k) == k \in DOMAIN m

\* The least element of a set of ids: what a BTreeSet yields first.
Min(S) == CHOOSE x \in S : \A y \in S : x <= y

Range(q) == {q[i] : i \in 1..Len(q)}

\* The orders in which a HashMap or HashSet over the keys S may yield them:
\* every enumeration of S without repetition.
Orders(S) == {q \in [1..Cardinality(S) -> S] : Range(q) = S}

\* An iteration order of a HashMap keyed by connection id, given as an order
\* of all connection ids; the map yields the keys it holds in that order.
KeyOrders == Orders(ConnectionIds)

\* The order taken where the collected Vec is dropped unread.
UnreadOrder == CHOOSE order \in KeyOrders : TRUE

\* Option<RoomState>
RoomNone == [tag |-> "None"]
Joined == [tag |-> "Joined"]
Calling(room_id) == [tag |-> "Calling", room_id |-> room_id]

Ok(s, v) == [store |-> s, ok |-> TRUE, val |-> v]
Err(s, msg) == [store |-> s, ok |-> FALSE, val |-> msg]

\* Store::default()
EmptyStore ==
    [connections |-> EmptyMap,
     connections_by_user_id |-> EmptyMap,
     next_room_id |-> 0,
     rooms |-> EmptyMap,
     projects |-> EmptyMap,
     channels |-> EmptyMap]

\* ------------------------------------------------------------- connections
add_connection(s, connection_id, user_id, admin) ==
    LET state == IF Has(s.connections_by_user_id, user_id)
                 THEN s.connections_by_user_id[user_id]
                 ELSE [connection_ids |-> {}, room |-> RoomNone]
    IN  Ok([s EXCEPT
              !.connections = Put(@, connection_id,
                  [user_id |-> user_id, admin |-> admin, projects |-> {},
                   requested_projects |-> {}, channels |-> {}]),
              !.connections_by_user_id = Put(@, user_id,
                  [state EXCEPT !.connection_ids = @ \cup {connection_id}])],
           <<>>)

user_id_for_connection(s, connection_id) ==
    IF Has(s.connections, connection_id)
    THEN Ok(s, s.connections[connection_id].user_id)
    ELSE Err(s, "unknown connection")

connection_ids_for_user(s, user_id) ==
    IF Has(s.connections_by_user_id, user_id)
    THEN s.connections_by_user_id[user_id].connection_ids
    ELSE {}

\* ---------------------------------------------------------------- channels
join_channel(s, connection_id, channel_id) ==
    IF Has(s.connections, connection_id)
    THEN LET members == IF Has(s.channels, channel_id)
                        THEN s.channels[channel_id] ELSE {}
         IN  Ok([s EXCEPT
                   !.connections[connection_id].channels = @ \cup {channel_id},
                   !.channels = Put(@, channel_id, members \cup {connection_id})],
                <<>>)
    ELSE Ok(s, <<>>)

\* A plausible slip: the row of a channel is kept when its last member leaves.
leave_channel_KeepsEmptyRow(s, connection_id, channel_id) ==
    IF Has(s.connections, connection_id)
    THEN LET s1 == [s EXCEPT !.connections[connection_id].channels = @ \ {channel_id}]
         IN  IF Has(s1.channels, channel_id)
             THEN Ok([s1 EXCEPT !.channels[channel_id] = @ \ {connection_id}], <<>>)
             ELSE Ok(s1, <<>>)
    ELSE Ok(s, <<>>)

leave_channel(s, connection_id, channel_id) ==
    IF Has(s.connections, connection_id)
    THEN LET s1 == [s EXCEPT !.connections[connection_id].channels = @ \ {channel_id}]
         IN  IF Has(s1.channels, channel_id)
             THEN LET members == s1.channels[channel_id] \ {connection_id}
                  IN  IF members = {}
                      THEN Ok([s1 EXCEPT !.channels = Remove(@, channel_id)], <<>>)
                      ELSE Ok([s1 EXCEPT !.channels[channel_id] = members], <<>>)
             ELSE Ok(s1, <<>>)
    ELSE Ok(s, <<>>)

\* ---------------------------------------------------------------- projects
\* Project::guest_connection_ids: the keys of guests.
guest_connection_ids(project) == DOMAIN project.guests

\* Project::connection_ids: the guests' keys chained with the host, collected
\* into a Vec. The guests come out of a HashMap, whose iteration order is
\* unspecified: order is the order this call's iteration takes, any of
\* KeyOrders.
connection_ids(project, order) ==
    SelectSeq(order, LAMBDA c : c \in DOMAIN project.guests)
        \o <<project.host_connection_id>>

\* Removes project_id from connection.projects of every listed connection
\* that is still in the store (the `if let Some(connection)` loops).
RemoveFromProjects(conns, ids, project_id) ==
    [c \in DOMAIN conns |->
        IF c \in ids THEN [conns[c] EXCEPT !.projects = @ \ {project_id}]
        ELSE conns[c]]

\* The same for connection.requested_projects.
RemoveFromRequested(conns, ids, project_id) ==
    [c \in DOMAIN conns |->
        IF c \in ids THEN [conns[c] EXCEPT !.requested_projects = @ \ {project_id}]
        ELSE conns[c]]

\* The unshare clearing of a project: language_servers and every worktree's
\* entries and diagnostic_summaries.
ClearShared(project) ==
    [project EXCEPT
        !.language_servers = <<>>,
        !.worktrees = [w \in DOMAIN @ |->
            [@[w] EXCEPT !.diagnostic_summaries = EmptyMap, !.entries = EmptyMap]]]

register_project(s, host_connection_id, project_id, online) ==
    IF ~Has(s.connections, host_connection_id) THEN Err(s, "no such connection")
    ELSE LET connection == s.connections[host_connection_id]
             project ==
                [online |-> online,
                 host_connection_id |-> host_connection_id,
                 host |-> [replica_id |-> 0, user_id |-> connection.user_id,
                           last_activity |-> "None", admin |-> connection.admin],
                 guests |-> EmptyMap,
                 join_requests |-> EmptyMap,
                 active_replica_ids |-> {},
                 worktrees |-> EmptyMap,
                 language_servers |-> <<>>]
         IN  Ok([s EXCEPT
                   !.connections[host_connection_id].projects = @ \cup {project_id},
                   !.projects = Put(@, project_id, project)],
                <<>>)

\* The worktree reconciliation loop of update_project: acc.old is
\* old_worktrees, acc.new is project.worktrees while the loop runs.
RECURSIVE ReconcileWorktrees(_, _, _)
ReconcileWorktrees(acc, worktrees, i) ==
    IF i > Len(worktrees) THEN acc.new
    ELSE LET worktree == worktrees[i]
         IN  IF Has(acc.old, worktree.id)
             THEN ReconcileWorktrees(
                    [old |-> Remove(acc.old, worktree.id),
                     new |-> Put(acc.new, worktree.id, acc.old[worktree.id])],
                    worktrees, i + 1)
             ELSE ReconcileWorktrees(
                    [old |-> acc.old,
                     new |-> Put(acc.new, worktree.id,
                        [root_name |-> worktree.root_name,
                         visible |-> worktree.visible,
                         entries |-> EmptyMap,
                         diagnostic_summaries |-> EmptyMap,
                         scan_id |-> 0,
                         is_complete |-> FALSE])],
                    worktrees, i + 1)

update_project(s, project_id, worktrees, online, connection_id) ==
    IF ~Has(s.projects, project_id) THEN Err(s, "no such project")
    ELSE IF s.projects[project_id].host_connection_id # connection_id
    THEN Err(s, "no such project")
    ELSE LET project0 == s.projects[project_id]
             project1 == [project0 EXCEPT !.worktrees =
                 ReconcileWorktrees([old |-> project0.worktrees, new |-> EmptyMap],
                                    worktrees, 1)]
         IN  IF online # project1.online
             THEN IF online
                  THEN Ok([s EXCEPT !.projects[project_id] =
                              [project1 EXCEPT !.online = TRUE]],
                          "None")
                  ELSE LET cleared == ClearShared(
                               [project1 EXCEPT !.online = FALSE,
                                                !.active_replica_ids = {}])
                       IN  Ok([s EXCEPT
                                 !.connections = RemoveFromProjects(
                                     @, guest_connection_ids(project1), project_id),
                                 !.projects[project_id] =
                                     [cleared EXCEPT !.guests = EmptyMap,
                                                     !.join_requests = EmptyMap]],
                              [guests |-> project1.guests,
                               pending_join_requests |-> project1.join_requests])
             ELSE Ok([s EXCEPT !.projects[project_id] = project1], "None")

\* A plausible slip: the guests' projects sets are not scrubbed.
unregister_project_KeepsGuests(s, project_id, connection_id) ==
    IF ~Has(s.projects, project_id) THEN Err(s, "no such project")
    ELSE IF s.projects[project_id].host_connection_id # connection_id
    THEN Err(s, "no such project")
    ELSE LET project == s.projects[project_id]
             requesters == UNION {connection_ids_for_user(s, u) :
                                    u \in DOMAIN project.join_requests}
             conns1 == RemoveFromProjects(s.connections, {connection_id}, project_id)
             conns3 == RemoveFromRequested(conns1, requesters, project_id)
         IN  Ok([s EXCEPT !.projects = Remove(@, project_id),
                          !.connections = conns3],
                project)

unregister_project(s, project_id, connection_id) ==
    IF ~Has(s.projects, project_id) THEN Err(s, "no such project")
    ELSE IF s.projects[project_id].host_connection_id # connection_id
    THEN Err(s, "no such project")
    ELSE LET project == s.projects[project_id]
             requesters == UNION {connection_ids_for_user(s, u) :
                                    u \in DOMAIN project.join_requests}
             conns1 == RemoveFromProjects(s.connections, {connection_id}, project_id)
             conns2 == RemoveFromProjects(conns1, DOMAIN project.guests, project_id)
             conns3 == RemoveFromRequested(conns2, requesters, project_id)
         IN  Ok([s EXCEPT !.projects = Remove(@, project_id),
                          !.connections = conns3],
                project)

\* A plausible slip: a join request is stored whether or not the project is
\* online.
request_join_project_IgnoresOnline(s, requester_id, project_id, receipt) ==
    IF ~Has(s.connections, receipt.sender_id) THEN Err(s, "no such connection")
    ELSE IF ~Has(s.projects, project_id) THEN Err(s, "no such project")
    ELSE LET join_requests == s.projects[project_id].join_requests
             receipts == IF Has(join_requests, requester_id)
                         THEN join_requests[requester_id] ELSE <<>>
         IN  Ok([s EXCEPT
                   !.connections[receipt.sender_id].requested_projects =
                       @ \cup {project_id},
                   !.projects[project_id].join_requests =
                       Put(@, requester_id, Append(receipts, receipt))],
                <<>>)

request_join_project(s, requester_id, project_id, receipt) ==
    IF ~Has(s.connections, receipt.sender_id) THEN Err(s, "no such connection")
    ELSE IF ~Has(s.projects, project_id) THEN Err(s, "no such project")
    ELSE IF s.projects[project_id].online
    THEN LET join_requests == s.projects[project_id].join_requests
             receipts == IF Has(join_requests, requester_id)
                         THEN join_requests[requester_id] ELSE <<>>
         IN  Ok([s EXCEPT
                   !.connections[receipt.sender_id].requested_projects =
                       @ \cup {project_id},
                   !.projects[project_id].join_requests =
                       Put(@, requester_id, Append(receipts, receipt))],
                <<>>)
    ELSE Err(s, "no such project")

\* A plausible slip: the responder is not compared with the host.
NotHost_Never(project, responder_connection_id) == FALSE

\* if responder_connection_id != project.host_connection_id { return None; }
NotHost(project, responder_connection_id) ==
    responder_connection_id # project.host_connection_id

\* The receipt loop of deny_join_project_request from receipt i on: `conns`
\* is self.connections so far. A receipt whose sender is not in connections
\* makes the `?` return None with the changes made so far kept.
RECURSIVE DenyReceipts(_, _, _, _)
DenyReceipts(conns, receipts, i, project_id) ==
    IF i > Len(receipts) THEN [connections |-> conns, done |-> TRUE]
    ELSE IF ~Has(conns, receipts[i].sender_id)
    THEN [connections |-> conns, done |-> FALSE]
    ELSE DenyReceipts(
            [conns EXCEPT ![receipts[i].sender_id].requested_projects =
                              @ \ {project_id}],
            receipts, i + 1, project_id)

deny_join_project_request(s, responder_connection_id, requester_id, project_id) ==
    IF ~Has(s.projects, project_id) THEN Err(s, "None")
    ELSE IF NotHost(s.projects[project_id], responder_connection_id)
    THEN Err(s, "None")
    ELSE IF ~Has(s.projects[project_id].join_requests, requester_id)
    THEN Err(s, "None")
    ELSE LET receipts == s.projects[project_id].join_requests[requester_id]
             s1 == [s EXCEPT !.projects[project_id].join_requests =
                                Remove(@, requester_id)]
             loop == DenyReceipts(s1.connections, receipts, 1, project_id)
             s2 == [s1 EXCEPT !.connections = loop.connections]
         IN  IF loop.done
             THEN Ok([s2 EXCEPT !.projects[project_id].host.last_activity = "Some"],
                     receipts)
             ELSE Err(s2, "None")

\* let mut replica_id = 1; while active_replica_ids.contains(&replica_id) { += 1 }
RECURSIVE ScanReplicaId(_, _)
ScanReplicaId(active_replica_ids, replica_id) ==
    IF replica_id \in active_replica_ids
    THEN ScanReplicaId(active_replica_ids, replica_id + 1)
    ELSE replica_id

\* A plausible slip: the next id after the largest one in use, so that a freed
\* id is never given out again.
NextReplicaId_NoReuse(active_replica_ids) ==
    IF active_replica_ids = {} THEN 1
    ELSE 1 + CHOOSE x \in active_replica_ids : \A y \in active_replica_ids : y <= x

NextReplicaId(active_replica_ids) == ScanReplicaId(active_replica_ids, 1)

\* The body of the receipt loop of accept_join_project_request for one
\* receipt whose sender is a known connection.
AcceptReceipt(acc, receipt, requester_id, project_id) ==
    LET requester_connection == acc.connections[receipt.sender_id]
        replica_id == NextReplicaId(acc.project.active_replica_ids)
    IN  [connections |-> [acc.connections EXCEPT ![receipt.sender_id] =
            [@ EXCEPT !.requested_projects = @ \ {project_id},
                      !.projects = @ \cup {project_id}]],
         project |-> [acc.project EXCEPT
            !.active_replica_ids = @ \cup {replica_id},
            !.guests = Put(@, receipt.sender_id,
                [replica_id |-> replica_id, user_id |-> requester_id,
                 last_activity |-> "Some", admin |-> requester_connection.admin])],
         pairs |-> Append(acc.pairs, <<receipt, replica_id>>),
         done |-> TRUE]

\* The receipt loop from receipt i on; a receipt whose sender is not in
\* connections makes the `?` return None with the changes made so far kept.
RECURSIVE AcceptReceipts(_, _, _, _, _)
AcceptReceipts(acc, receipts, i, requester_id, project_id) ==
    IF i > Len(receipts) THEN acc
    ELSE IF ~Has(acc.connections, receipts[i].sender_id)
    THEN [acc EXCEPT !.done = FALSE]
    ELSE AcceptReceipts(AcceptReceipt(acc, receipts[i], requester_id, project_id),
                        receipts, i + 1, requester_id, project_id)

accept_join_project_request(s, responder_connection_id, requester_id, project_id) ==
    IF ~Has(s.projects, project_id) THEN Err(s, "None")
    ELSE IF NotHost(s.projects[project_id], responder_connection_id)
    THEN Err(s, "None")
    ELSE IF ~Has(s.projects[project_id].join_requests, requester_id)
    THEN Err(s, "None")
    ELSE LET receipts == s.projects[project_id].join_requests[requester_id]
             project1 == [s.projects[project_id] EXCEPT
                             !.join_requests = Remove(@, requester_id)]
             loop == AcceptReceipts(
                        [connections |-> s.connections, project |-> project1,
                         pairs |-> <<>>, done |-> TRUE],
                        receipts, 1, requester_id, project_id)
             s1 == [s EXCEPT !.connections = loop.connections,
                             !.projects[project_id] = loop.project]
         IN  IF loop.done
             THEN LET s2 == [s1 EXCEPT
                                !.projects[project_id].host.last_activity = "Some"]
                  IN  Ok(s2, [pairs |-> loop.pairs, project |-> s2.projects[project_id]])
             ELSE Err(s1, "None")

\* A plausible slip: leaving withdraws every receipt of the user, not only
\* the ones sent from the leaving connection.
RetainReceipts_DropsAll(receipts, connection_id) == <<>>

\* entry.get_mut().retain(|receipt| receipt.sender_id != connection_id)
RetainReceipts(receipts, connection_id) ==
    SelectSeq(receipts, LAMBDA receipt : receipt.sender_id # connection_id)

leave_project(s, connection_id, project_id, order) ==
    IF ~user_id_for_connection(s, connection_id).ok
    THEN Err(s, "unknown connection")
    ELSE IF ~Has(s.projects, project_id) THEN Err(s, "no such project")
    ELSE LET user_id == user_id_for_connection(s, connection_id).val
             project0 == s.projects[project_id]
             remove_collaborator == Has(project0.guests, connection_id)
             project1 ==
                IF remove_collaborator
                THEN [project0 EXCEPT
                        !.guests = Remove(@, connection_id),
                        !.active_replica_ids =
                            @ \ {project0.guests[connection_id].replica_id}]
                ELSE project0
             occupied == Has(project1.join_requests, user_id)
             retained == IF occupied
                         THEN RetainReceipts(project1.join_requests[user_id],
                                             connection_id)
                         ELSE <<>>
             cancel == occupied /\ retained = <<>>
             project2 ==
                IF ~occupied THEN project1
                ELSE IF cancel
                THEN [project1 EXCEPT !.join_requests = Remove(@, user_id)]
                ELSE [project1 EXCEPT !.join_requests[user_id] = retained]
             ids == connection_ids(project2, order)
             unshare == Len(ids) <= 1 /\ DOMAIN project2.join_requests = {}
             project3 == IF unshare THEN ClearShared(project2) ELSE project2
         IN  Ok([s EXCEPT
                   !.connections = RemoveFromProjects(@, {connection_id}, project_id),
                   !.projects[project_id] = project3],
                [host_connection_id |-> project3.host_connection_id,
                 host_user_id |-> project3.host.user_id,
                 connection_ids |-> ids,
                 cancel_request |-> IF cancel THEN <<user_id>> ELSE <<>>,
                 unshare |-> unshare,
                 remove_collaborator |-> remove_collaborator])

\* ------------------------------------------- project reads and worktrees
\* read_project: the project, for its host or one of its guests.
read_project(s, project_id, connection_id) ==
    IF ~Has(s.projects, project_id) THEN Err(s, "no such project")
    ELSE LET project == s.projects[project_id]
         IN  IF \/ project.host_connection_id = connection_id
                \/ Has(project.guests, connection_id)
             THEN Ok(s, project)
             ELSE Err(s, "no such project")

\* write_project: the same test as read_project, for a mutable borrow.
write_project(s, project_id, connection_id) ==
    IF ~Has(s.projects, project_id) THEN Err(s, "no such project")
    ELSE LET project == s.projects[project_id]
         IN  IF \/ project.host_connection_id = connection_id
                \/ Has(project.guests, connection_id)
             THEN Ok(s, project)
             ELSE Err(s, "no such project")

project_connection_ids(s, project_id, acting_connection_id, order) ==
    LET r == read_project(s, project_id, acting_connection_id)
    IN  IF r.ok THEN Ok(s, connection_ids(r.val, order)) ELSE r

register_project_activity(s, project_id, connection_id) ==
    IF ~Has(s.projects, project_id) THEN Err(s, "no such project")
    ELSE LET project == s.projects[project_id]
         IN  IF connection_id = project.host_connection_id
             THEN Ok([s EXCEPT !.projects[project_id].host.last_activity = "Some"],
                     <<>>)
             ELSE IF Has(project.guests, connection_id)
             THEN Ok([s EXCEPT !.projects[project_id].guests[connection_id]
                                    .last_activity = "Some"],
                     <<>>)
             ELSE Err(s, "no such project")

\* summary is a proto::DiagnosticSummary, a record with a path field.
update_diagnostic_summary(s, project_id, worktree_id, connection_id, summary, order) ==
    IF ~Has(s.projects, project_id) THEN Err(s, "no such project")
    ELSE LET project == s.projects[project_id]
         IN  IF project.host_connection_id = connection_id
             THEN IF ~Has(project.worktrees, worktree_id)
                  THEN Err(s, "no such worktree")
                  ELSE Ok([s EXCEPT !.projects[project_id].worktrees[worktree_id]
                                        .diagnostic_summaries =
                                            Put(@, summary.path, summary)],
                          connection_ids(project, order))
             ELSE Err(s, "no such worktree")

start_language_server(s, project_id, connection_id, language_server, order) ==
    IF ~Has(s.projects, project_id) THEN Err(s, "no such project")
    ELSE LET project == s.projects[project_id]
         IN  IF project.host_connection_id = connection_id
             THEN Ok([s EXCEPT !.projects[project_id].language_servers =
                                  Append(@, language_server)],
                     connection_ids(project, order))
             ELSE Err(s, "no such project")

\* Worktree::default()
DefaultWorktree ==
    [root_name |-> "", visible |-> FALSE, entries |-> EmptyMap,
     diagnostic_summaries |-> EmptyMap, scan_id |-> 0, is_complete |-> FALSE]

\* for entry_id in removed_entries { worktree.entries.remove(entry_id); }
RECURSIVE RemoveEntries(_, _, _)
RemoveEntries(entries, removed_entries, i) ==
    IF i > Len(removed_entries) THEN entries
    ELSE RemoveEntries(Remove(entries, removed_entries[i]), removed_entries, i + 1)

\* for entry in updated_entries { worktree.entries.insert(entry.id, entry); }
RECURSIVE InsertEntries(_, _, _)
InsertEntries(entries, updated_entries, i) ==
    IF i > Len(updated_entries) THEN entries
    ELSE InsertEntries(Put(entries, updated_entries[i].id, updated_entries[i]),
                       updated_entries, i + 1)

update_worktree(s, connection_id, project_id, worktree_id, worktree_root_name, removed_entries, updated_entries, scan_id, is_last_update, order) ==
    LET w == write_project(s, project_id, connection_id)
    IN  IF ~w.ok THEN w
        ELSE IF ~w.val.online THEN Err(s, "project is not online")
        ELSE LET project == w.val
                 worktree == IF Has(project.worktrees, worktree_id)
                             THEN project.worktrees[worktree_id]
                             ELSE DefaultWorktree
                 metadata_changed == worktree_root_name # worktree.root_name
                 entries == InsertEntries(
                     RemoveEntries(worktree.entries, removed_entries, 1),
                     updated_entries, 1)
                 updated == [worktree EXCEPT !.root_name = worktree_root_name,
                                             !.entries = entries,
                                             !.scan_id = scan_id,
                                             !.is_complete = is_last_update]
             IN  Ok([s EXCEPT !.projects[project_id].worktrees =
                                Put(@, worktree_id, updated)],
                    [connection_ids |-> connection_ids(project, order),
                     metadata_changed |-> metadata_changed])

\* ------------------------------------------------------- remove_connection
\* `for channel_id in connection_channels { self.leave_channel(..) }`
\* connection_channels is a HashSet, iterated in an unspecified order; each
\* leave_channel touches only the row of its own channel, so every order
\* leaves the same store, and the least id is taken first.
RECURSIVE LeaveChannels(_, _, _)
LeaveChannels(s, connection_id, channel_ids) ==
    IF channel_ids = {} THEN s
    ELSE LeaveChannels(leave_channel(s, connection_id, Min(channel_ids)).store,
                       connection_id, channel_ids \ {Min(channel_ids)})

\* `for project_id in connection_projects`: unregister_project, and when that
\* fails leave_project. acc = [store, hosted_projects, guest_project_ids].
RECURSIVE LeaveProjects(_, _, _)
LeaveProjects(acc, connection_id, project_ids) ==
    IF project_ids = {} THEN acc
    ELSE LET project_id == Min(project_ids)
             unregistered == unregister_project(acc.store, project_id, connection_id)
             left == leave_project(acc.store, connection_id, project_id, UnreadOrder)
             next ==
                IF unregistered.ok
                THEN [acc EXCEPT !.store = unregistered.store,
                                 !.hosted_projects =
                                     Put(@, project_id, unregistered.val)]
                ELSE IF left.ok
                THEN [acc EXCEPT !.store = left.store,
                                 !.guest_project_ids = @ \cup {project_id}]
                ELSE acc
         IN  LeaveProjects(next, connection_id, project_ids \ {project_id})

\* A plausible slip: the connection id stays in the user's connection set.
DropConnection_KeepsUserEntry(s, connection_id, user_id) ==
    [s EXCEPT !.connections = Remove(@, connection_id)]

\* The last steps of remove_connection: the user's connection set, the user
\* entry when that set empties, and the connection row.
DropConnection(s, connection_id, user_id) ==
    LET remaining == s.connections_by_user_id[user_id].connection_ids
                         \ {connection_id}
        users == IF remaining = {}
                 THEN Remove(s.connections_by_user_id, user_id)
                 ELSE [s.connections_by_user_id EXCEPT
                          ![user_id].connection_ids = remaining]
    IN  [s EXCEPT !.connections_by_user_id = users,
                  !.connections = Remove(@, connection_id)]

remove_connection(s, connection_id) ==
    IF ~Has(s.connections, connection_id) THEN Err(s, "no such connection")
    ELSE LET connection == s.connections[connection_id]
             user_id == connection.user_id
             connection_projects == connection.projects
             connection_channels == connection.channels
             s1 == [s EXCEPT !.connections[connection_id].projects = {},
                             !.connections[connection_id].channels = {}]
             s2 == LeaveChannels(s1, connection_id, connection_channels)
             left == LeaveProjects(
                        [store |-> s2, hosted_projects |-> EmptyMap,
                         guest_project_ids |-> {}],
                        connection_id, connection_projects)
         IN  Ok(DropConnection(left.store, connection_id, user_id),
                [user_id |-> user_id,
                 hosted_projects |-> left.hosted_projects,
                 guest_project_ids |-> left.guest_project_ids,
                 contact_ids |-> {}])

\* ------------------------------------------------------------------- rooms
Participant(user_id, peer_id) ==
    [user_id |-> user_id, peer_id |-> peer_id, project_ids |-> <<>>,
     location |-> "External"]

create_room(s, creator_connection_id) ==
    IF ~Has(s.connections, creator_connection_id) THEN Err(s, "no such connection")
    ELSE LET user_id == s.connections[creator_connection_id].user_id
         IN  IF ~Has(s.connections_by_user_id, user_id)
             THEN Err(s, "no such connection")
             ELSE IF s.connections_by_user_id[user_id].room # RoomNone
             THEN Err(s, "cannot participate in more than one room at once")
             ELSE LET room == [participants |->
                                  <<Participant(user_id, creator_connection_id)>>,
                               pending_user_ids |-> <<>>]
                      room_id == s.next_room_id
                  IN  Ok([s EXCEPT
                            !.next_room_id = @ + 1,
                            !.rooms = Put(@, room_id, room),
                            !.connections_by_user_id[user_id].room = Joined],
                         room_id)

\* user_connection_state.room.map_or(true, |room| room == RoomState::Calling { room_id })
MayJoin(room, room_id) == room = RoomNone \/ room = Calling(room_id)

join_room(s, room_id, connection_id) ==
    IF ~Has(s.connections, connection_id) THEN Err(s, "no such connection")
    ELSE LET user_id == s.connections[connection_id].user_id
             recipient_connection_ids == connection_ids_for_user(s, user_id)
         IN  IF ~Has(s.connections_by_user_id, user_id)
             THEN Err(s, "no such connection")
             ELSE IF ~MayJoin(s.connections_by_user_id[user_id].room, room_id)
             THEN Err(s, "cannot participate in more than one room at once")
             ELSE IF ~Has(s.rooms, room_id) THEN Err(s, "no such room")
             ELSE IF user_id \notin Range(s.rooms[room_id].pending_user_ids)
             THEN Err(s, "no such room")
             ELSE LET s1 == [s EXCEPT
                        !.rooms[room_id].pending_user_ids =
                            SelectSeq(@, LAMBDA pending : pending # user_id),
                        !.rooms[room_id].participants =
                            Append(@, Participant(user_id, connection_id)),
                        !.connections_by_user_id[user_id].room = Joined]
                  IN  Ok(s1, [room |-> s1.rooms[room_id],
                              connection_ids |-> recipient_connection_ids])

\* A plausible slip: call does not look for an earlier invitation.
AlreadyPending_Never(room, to_user_id) == FALSE

\* The negation of `room.pending_user_ids.iter().all(|user_id| user_id != to_user_id)`.
AlreadyPending(room, to_user_id) ==
    ~(\A i \in 1..Len(room.pending_user_ids) : room.pending_user_ids[i] # to_user_id)

call(s, room_id, from_connection_id, to_user_id) ==
    IF ~user_id_for_connection(s, from_connection_id).ok
    THEN Err(s, "unknown connection")
    ELSE LET from_user_id == user_id_for_connection(s, from_connection_id).val
             to_connection_ids == connection_ids_for_user(s, to_user_id)
         IN  IF ~Has(s.connections_by_user_id, to_user_id)
             THEN Err(s, "no such connection")
             ELSE IF s.connections_by_user_id[to_user_id].room # RoomNone
             THEN Err(s, "recipient is already on another call")
             ELSE IF ~Has(s.rooms, room_id) THEN Err(s, "no such room")
             ELSE IF ~(\E i \in 1..Len(s.rooms[room_id].participants) :
                         s.rooms[room_id].participants[i].peer_id = from_connection_id)
             THEN Err(s, "no such room")
             ELSE IF AlreadyPending(s.rooms[room_id], to_user_id)
             THEN Err(s, "cannot call the same user more than once")
             ELSE LET s1 == [s EXCEPT
                        !.rooms[room_id].pending_user_ids = Append(@, to_user_id),
                        !.connections_by_user_id[to_user_id].room = Calling(room_id)]
                  IN  Ok(s1, [from_user_id |-> from_user_id,
                              connection_ids |-> to_connection_ids,
                              room |-> s1.rooms[room_id]])

\* room.pending_user_ids.retain(|user_id| user_id != to_user_id)
RemovePending(pending_user_ids, to_user_id) ==
    SelectSeq(pending_user_ids, LAMBDA user_id : user_id # to_user_id)

\* The state is cleared before the room is looked up, so a missing room
\* returns the error with the user's room state already None. The message
\* of anyhow::ensure! is "Condition failed: " and the text of the condition
\* between backquotes; a string here cannot hold a backquote, so the two
\* backquotes are written as apostrophes.
call_failed(s, room_id, to_user_id) ==
    IF ~Has(s.connections_by_user_id, to_user_id) THEN Err(s, "no such connection")
    ELSE IF s.connections_by_user_id[to_user_id].room # Calling(room_id)
    THEN Err(s, "Condition failed: 'to_user_connection_state.room == Some(RoomState::Calling { room_id })'")
    ELSE LET s1 == [s EXCEPT !.connections_by_user_id[to_user_id].room = RoomNone]
         IN  IF ~Has(s1.rooms, room_id) THEN Err(s1, "no such room")
             ELSE LET s2 == [s1 EXCEPT !.rooms[room_id].pending_user_ids =
                                RemovePending(@, to_user_id)]
                  IN  Ok(s2, s2.rooms[room_id])

call_declined(s, recipient_connection_id) ==
    IF ~user_id_for_connection(s, recipient_connection_id).ok
    THEN Err(s, "unknown connection")
    ELSE LET recipient_user_id ==
                 user_id_for_connection(s, recipient_connection_id).val
         IN  IF ~Has(s.connections_by_user_id, recipient_user_id)
             THEN Err(s, "no such connection")
             ELSE IF s.connections_by_user_id[recipient_user_id].room.tag = "Calling"
             THEN LET room_id == s.connections_by_user_id[recipient_user_id].room.room_id
                      s1 == [s EXCEPT
                               !.connections_by_user_id[recipient_user_id].room = RoomNone]
                      recipient_connection_ids ==
                          connection_ids_for_user(s1, recipient_user_id)
                  IN  IF ~Has(s1.rooms, room_id) THEN Err(s1, "no such room")
                      ELSE LET s2 == [s1 EXCEPT !.rooms[room_id].pending_user_ids =
                                  RemovePending(@, recipient_user_id)]
                           IN  Ok(s2, [room |-> s2.rooms[room_id],
                                       connection_ids |-> recipient_connection_ids])
             ELSE Err(s, "user is not being called")

\* ------------------------------------------------------------------- state
VARIABLES
    connections,             \* BTreeMap<ConnectionId, ConnectionState>
    connections_by_user_id,  \* BTreeMap<UserId, UserConnectionState>
    next_room_id,            \* RoomId
    rooms,                   \* BTreeMap<RoomId, proto::Room>
    projects,                \* BTreeMap<ProjectId, Project>
    channels,                \* BTreeMap<ChannelId, Channel>
    ret                      \* the last call that acted: [op, args, ok, val]

tables == <<connections, connections_by_user_id, next_room_id, rooms, projects,
            channels>>
vars == <<connections, connections_by_user_id, next_room_id, rooms, projects,
          channels, ret>>

\* The store as one value, as the operations take it.
Store ==
    [connections |-> connections,
     connections_by_user_id |-> connections_by_user_id,
     next_room_id |-> next_room_id,
     rooms |-> rooms,
     projects |-> projects,
     channels |-> channels]

\* One call. A call that fails and leaves the store as it was changes
\* nothing (a stuttering step); any other call sets the tables to the store
\* the operation leaves, and ret records the call and what it returned.
Call(op, args, r) ==
    IF ~r.ok /\ r.store = Store
    THEN UNCHANGED vars
    ELSE /\ connections' = r.store.connections
         /\ connections_by_user_id' = r.store.connections_by_user_id
         /\ next_room_id' = r.store.next_room_id
         /\ rooms' = r.store.rooms
         /\ projects' = r.store.projects
         /\ channels' = r.store.channels
         /\ ret' = [op |-> op, args |-> args, ok |-> r.ok, val |-> r.val]

Init ==
    /\ connections = EmptyStore.connections
    /\ connections_by_user_id = EmptyStore.connections_by_user_id
    /\ next_room_id = EmptyStore.next_room_id
    /\ rooms = EmptyStore.rooms
    /\ projects = EmptyStore.projects
    /\ channels = EmptyStore.channels
    /\ ret = [op |-> "new", args |-> <<>>, ok |-> TRUE, val |-> <<>>]

\* ----------------------------------------------------------------- actions
\* The number of receipts a project holds, over all requesters.
RECURSIVE ReceiptCount(_, _)
ReceiptCount(join_requests, users) ==
    IF users = {} THEN 0
    ELSE Len(join_requests[Min(users)])
         + ReceiptCount(join_requests, users \ {Min(users)})

\* The worktree metadata lists update_project is called with.
WorktreeLists ==
    {<<>>}

\* The admin flags add_connection is called with.
AdminFlags == {FALSE}

\* Inputs of the worktree operations.
WorktreeIds == {1}
Summaries == {[path |-> "a"]}
LanguageServers == {[id |-> 1]}
Receipt(c) == [sender_id |-> c]

\* The entry changes update_worktree is called with: an entry added, or the
\* same entry removed.
WorktreeUpdates ==
    {[removed_entries |-> <<>>, updated_entries |-> <<[id |-> 1]>>],
     [removed_entries |-> <<1>>, updated_entries |-> <<>>]}

\* add_connection with any connection id: the store does not test whether
\* the id is in use, and overwrites the row of one that is.
AddConnection ==
    \E c \in ConnectionIds, u \in UserIds, admin \in AdminFlags :
        Call("add_connection",
             [connection_id |-> c, user_id |-> u, admin |-> admin],
             add_connection(Store, c, u, admin))

\* add_connection as a caller uses it that gives every new connection an id
\* not currently present in the store.
AddFreshConnection ==
    \E c \in ConnectionIds, u \in UserIds, admin \in AdminFlags :
        /\ ~Has(connections, c)
        /\ Call("add_connection",
                [connection_id |-> c, user_id |-> u, admin |-> admin],
                add_connection(Store, c, u, admin))

RemoveConnection ==
    \E c \in ConnectionIds :
        Call("remove_connection", [connection_id |-> c],
             remove_connection(Store, c))

JoinChannel ==
    \E c \in ConnectionIds, ch \in ChannelIds :
        Call("join_channel", [connection_id |-> c, channel_id |-> ch],
             join_channel(Store, c, ch))

LeaveChannel ==
    \E c \in ConnectionIds, ch \in ChannelIds :
        Call("leave_channel", [connection_id |-> c, channel_id |-> ch],
             leave_channel(Store, c, ch))

\* create_room while fewer than n rooms have been created.
CreateRoomUpTo(n) ==
    \E c \in ConnectionIds :
        /\ next_room_id < n
        /\ Call("create_room", [connection_id |-> c], create_room(Store, c))

CreateRoom == CreateRoomUpTo(MaxRooms)

JoinRoom ==
    \E r \in 0..(MaxRooms - 1), c \in ConnectionIds :
        /\ Has(rooms, r) => Len(rooms[r].participants) < MaxParticipants
        /\ Call("join_room", [room_id |-> r, connection_id |-> c],
                join_room(Store, r, c))

CallUser ==
    \E r \in 0..(MaxRooms - 1), c \in ConnectionIds, u \in UserIds :
        Call("call", [room_id |-> r, connection_id |-> c, user_id |-> u],
             call(Store, r, c, u))

CallFailed ==
    \E r \in 0..(MaxRooms - 1), u \in UserIds :
        Call("call_failed", [room_id |-> r, user_id |-> u],
             call_failed(Store, r, u))

CallDeclined ==
    \E c \in ConnectionIds :
        Call("call_declined", [connection_id |-> c], call_declined(Store, c))

\* register_project with any project id: the store does not test whether
\* the id is registered, and replaces the project of one that is.
RegisterProject ==
    \E c \in ConnectionIds, p \in ProjectIds, online \in BOOLEAN :
        Call("register_project",
             [connection_id |-> c, project_id |-> p, online |-> online],
             register_project(Store, c, p, online))

\* register_project as a caller uses it that registers a project only under
\* a project id not currently registered.
RegisterFreshProject ==
    \E c \in ConnectionIds, p \in ProjectIds, online \in BOOLEAN :
        /\ ~Has(projects, p)
        /\ Call("register_project",
                [connection_id |-> c, project_id |-> p, online |-> online],
                register_project(Store, c, p, online))

UpdateProject ==
    \E p \in ProjectIds, w \in WorktreeLists, online \in BOOLEAN,
       c \in ConnectionIds :
        Call("update_project",
             [project_id |-> p, worktrees |-> w, online |-> online,
              connection_id |-> c],
             update_project(Store, p, w, online, c))

UnregisterProject ==
    \E p \in ProjectIds, c \in ConnectionIds :
        Call("unregister_project", [project_id |-> p, connection_id |-> c],
             unregister_project(Store, p, c))

\* request_join_project while the project holds fewer than n receipts.
\* requester_id and the receipt's sender_id are two arguments the store does
\* not compare: u is any user, the user of connection c or another.
RequestJoinProjectUpTo(n) ==
    \E c \in ConnectionIds, p \in ProjectIds, u \in UserIds :
        /\ Has(projects, p) =>
              ReceiptCount(projects[p].join_requests,
                           DOMAIN projects[p].join_requests) < n
        /\ Call("request_join_project",
                [user_id |-> u, project_id |-> p, connection_id |-> c],
                request_join_project(Store, u, p, [sender_id |-> c]))

RequestJoinProject == RequestJoinProjectUpTo(MaxReceipts)

DenyJoinProjectRequest ==
    \E c \in ConnectionIds, u \in UserIds, p \in ProjectIds :
        Call("deny_join_project_request",
             [connection_id |-> c, user_id |-> u, project_id |-> p],
             deny_join_project_request(Store, c, u, p))

AcceptJoinProjectRequest ==
    \E c \in ConnectionIds, u \in UserIds, p \in ProjectIds :
        /\ (Has(projects, p) /\ Has(projects[p].join_requests, u)) =>
              Cardinality(projects[p].active_replica_ids)
                + Len(projects[p].join_requests[u]) <= MaxReplicaId
        /\ Call("accept_join_project_request",
                [connection_id |-> c, user_id |-> u, project_id |-> p],
                accept_join_project_request(Store, c, u, p))

LeaveProject ==
    \E c \in ConnectionIds, p \in ProjectIds, order \in KeyOrders :
        Call("leave_project", [connection_id |-> c, project_id |-> p],
             leave_project(Store, c, p, order))

StartLanguageServer ==
    \E p \in ProjectIds, c \in ConnectionIds, l \in LanguageServers,
       order \in KeyOrders :
        /\ Has(projects, p) => Len(projects[p].language_servers) < MaxLanguageServers
        /\ Call("start_language_server",
                [project_id |-> p, connection_id |-> c, language_server |-> l],
                start_language_server(Store, p, c, l, order))

UpdateWorktree ==
    \E c \in ConnectionIds, p \in ProjectIds, w \in WorktreeIds,
       e \in WorktreeUpdates, order \in KeyOrders :
        Call("update_worktree",
             [connection_id |-> c, project_id |-> p, worktree_id |-> w,
              removed_entries |-> e.removed_entries,
              updated_entries |-> e.updated_entries],
             update_worktree(Store, c, p, w, "r", e.removed_entries,
                             e.updated_entries, 1, TRUE, order))

UpdateDiagnosticSummary ==
    \E p \in ProjectIds, w \in WorktreeIds, c \in ConnectionIds, m \in Summaries,
       order \in KeyOrders :
        Call("update_diagnostic_summary",
             [project_id |-> p, worktree_id |-> w, connection_id |-> c,
              summary |-> m],
             update_diagnostic_summary(Store, p, w, c, m, order))

RegisterProjectActivity ==
    \E p \in ProjectIds, c \in ConnectionIds :
        Call("register_project_activity",
             [project_id |-> p, connection_id |-> c],
             register_project_activity(Store, p, c))

\* The operations of each group, called with any arguments.
ConnectionOps == AddConnection \/ RemoveConnection
ChannelOps == JoinChannel \/ LeaveChannel
RoomOps == CreateRoom \/ JoinRoom \/ CallUser \/ CallFailed \/ CallDeclined
ProjectOps ==
    \/ RegisterProject \/ UpdateProject \/ UnregisterProject
    \/ RequestJoinProject \/ DenyJoinProjectRequest \/ AcceptJoinProjectRequest
    \/ LeaveProject

WorktreeOps ==
    \/ StartLanguageServer \/ UpdateWorktree \/ UpdateDiagnosticSummary
    \/ RegisterProjectActivity

\* The connection operations of a caller that never adds an id in use.
FreshConnectionOps == AddFreshConnection \/ RemoveConnection

\* The project operations other than register_project and
\* request_join_project.
HostAndGuestOps ==
    \/ UpdateProject \/ UnregisterProject
    \/ DenyJoinProjectRequest \/ AcceptJoinProjectRequest \/ LeaveProject

\* The four groups of tables interact only through connections: channel,
\* room and project operations read and write their own tables and the
\* fields of connections and connections_by_user_id that belong to them, and
\* remove_connection unwinds each group separately. Spec is the whole store,
\* every operation called with any arguments; the specifications below are
\* the store with the connections and one group of operations.
Next == ConnectionOps \/ ChannelOps \/ RoomOps \/ ProjectOps \/ WorktreeOps
Spec == Init /\ [][Next]_vars

\* Connections and channels, every operation called with any arguments.
NextChannels == ConnectionOps \/ ChannelOps
SpecChannels == Init /\ [][NextChannels]_vars

\* Connections and rooms, every operation called with any arguments;
\* at most MaxRoomsAnyId rooms are created.
NextRooms ==
    \/ ConnectionOps
    \/ CreateRoomUpTo(MaxRoomsAnyId)
    \/ JoinRoom \/ CallUser \/ CallFailed \/ CallDeclined
SpecRooms == Init /\ [][NextRooms]_vars

\* Connections and rooms of a caller that adds a connection only under an id
\* not present in the store; up to MaxRooms rooms.
NextRoomsFreshIds == FreshConnectionOps \/ RoomOps
SpecRoomsFreshIds == Init /\ [][NextRoomsFreshIds]_vars

\* Connections and projects, every operation called with any arguments; a
\* project holds at most MaxReceiptsAnyId receipts at a time.
NextProjects ==
    \/ ConnectionOps
    \/ RegisterProject \/ RequestJoinProjectUpTo(MaxReceiptsAnyId)
    \/ HostAndGuestOps
SpecProjects == Init /\ [][NextProjects]_vars

\* Connections and projects without accepted guests, every operation called
\* with any arguments; a project holds up to MaxReceipts receipts.
NextJoinRequests ==
    \/ ConnectionOps
    \/ RegisterProject \/ RequestJoinProject
    \/ UpdateProject \/ UnregisterProject \/ DenyJoinProjectRequest
    \/ LeaveProject
SpecJoinRequests == Init /\ [][NextJoinRequests]_vars

\* Connections and projects of a caller that adds a connection only under an
\* id not present in the store and registers a project only under an id not
\* registered.
NextProjectsFreshIds ==
    \/ FreshConnectionOps
    \/ RegisterFreshProject \/ RequestJoinProject
    \/ HostAndGuestOps
SpecProjectsFreshIds == Init /\ [][NextProjectsFreshIds]_vars

\* Connections and projects of a caller that adds a connection only under an
\* id not present in the store; register_project on any project id.
NextProjectsFreshConnections == FreshConnectionOps \/ ProjectOps
SpecProjectsFreshConnections == Init /\ [][NextProjectsFreshConnections]_vars

\* Connections and projects of a caller that registers a project only under
\* an id not registered; add_connection on any connection id, and a project
\* holds at most MaxReceiptsAnyId receipts at a time.
NextProjectsFreshProjects ==
    \/ ConnectionOps
    \/ RegisterFreshProject \/ RequestJoinProjectUpTo(MaxReceiptsAnyId)
    \/ HostAndGuestOps
SpecProjectsFreshProjects == Init /\ [][NextProjectsFreshProjects]_vars

\* Connections, projects without join requests, and the worktree
\* operations, every operation called with any arguments.
NextWorktrees ==
    \/ ConnectionOps
    \/ RegisterProject \/ UpdateProject \/ UnregisterProject \/ LeaveProject
    \/ WorktreeOps
SpecWorktrees == Init /\ [][NextWorktrees]_vars

\* ------------------------------------------------------------------ claims
\* The stored receipts of a project, over all requesters.
Receipts(project) ==
    UNION {Range(project.join_requests[u]) : u \in DOMAIN project.join_requests}

\* No table of the store refers to connection c.
NoReference(c) ==
    /\ ~Has(connections, c)
    /\ \A u \in DOMAIN connections_by_user_id :
          c \notin connections_by_user_id[u].connection_ids
    /\ \A ch \in DOMAIN channels : c \notin channels[ch]
    /\ \A p \in DOMAIN projects :
          /\ projects[p].host_connection_id # c
          /\ ~Has(projects[p].guests, c)
          /\ \A receipt \in Receipts(projects[p]) : receipt.sender_id # c
    /\ \A r \in DOMAIN rooms :
          \A i \in 1..Len(rooms[r].participants) :
              rooms[r].participants[i].peer_id # c

\* C1: after remove_connection(c) returns successfully no table of the store
\* refers to c: not connections, no user's connection set, no channel, no
\* project's host_connection_id, guests or stored receipts, no room
\* participant's peer id.
C1_RemovedConnectionUnreferenced ==
    (ret.op = "remove_connection" /\ ret.ok)
        => NoReference(ret.args.connection_id)

\* C2: every project's active_replica_ids is the set of its guests' replica
\* ids, and has as many elements as there are guests.
C2_ReplicaIdsMatchGuests ==
    \A p \in DOMAIN projects :
        /\ projects[p].active_replica_ids =
              {projects[p].guests[g].replica_id : g \in DOMAIN projects[p].guests}
        /\ Cardinality(projects[p].active_replica_ids) =
              Cardinality(DOMAIN projects[p].guests)

\* C3: every project's host is a connection whose projects set contains the
\* project, and so is every guest.
C3_ProjectMembersListProject ==
    \A p \in DOMAIN projects :
        /\ Has(connections, projects[p].host_connection_id)
        /\ p \in connections[projects[p].host_connection_id].projects
        /\ \A g \in DOMAIN projects[p].guests :
              Has(connections, g) /\ p \in connections[g].projects

\* C4: every project id in a connection's projects set is a registered
\* project of which the connection is the host or a guest.
C4_ListedProjectsHaveMember ==
    \A c \in DOMAIN connections :
        \A p \in connections[c].projects :
            /\ Has(projects, p)
            /\ \/ projects[p].host_connection_id = c
               \/ Has(projects[p].guests, c)

\* C4 witness: a connection lists a project it joined as a guest, while the
\* host of the project is another connection that lists it too.
C4_Witness ==
    \E c \in DOMAIN connections : \E p \in connections[c].projects :
        /\ Has(projects, p)
        /\ projects[p].host_connection_id # c
        /\ Has(projects[p].guests, c)
        /\ Has(connections, projects[p].host_connection_id)
        /\ p \in connections[projects[p].host_connection_id].projects

\* The user ids of the participants of a room.
ParticipantUserIds(room) ==
    {room.participants[i].user_id : i \in 1..Len(room.participants)}

\* C5: a user whose room state is Joined is a participant of exactly one
\* room; a user whose room state is Calling{r} is in the pending list of room
\* r, in no other room's pending list and in no room's participants.
C5_RoomStateMatchesRooms ==
    \A u \in DOMAIN connections_by_user_id :
        LET state == connections_by_user_id[u].room
        IN  /\ state = Joined =>
                Cardinality({r \in DOMAIN rooms :
                                u \in ParticipantUserIds(rooms[r])}) = 1
            /\ state.tag = "Calling" =>
                /\ Has(rooms, state.room_id)
                /\ u \in Range(rooms[state.room_id].pending_user_ids)
                /\ \A r \in DOMAIN rooms :
                      /\ r # state.room_id =>
                            u \notin Range(rooms[r].pending_user_ids)
                      /\ u \notin ParticipantUserIds(rooms[r])

\* C6: a call that fails (an error, or None from accept_join_project_request
\* or deny_join_project_request) leaves every table as it was before the call.
C6_FailedCallChangesNothing ==
    [][(~ret'.ok) => UNCHANGED tables]_vars

\* C7: every connection is in the connection set of its user, and every
\* connection id in a user's connection set is a connection of that user.
C7_UsersAndConnectionsAgree ==
    /\ \A c \in DOMAIN connections :
          /\ Has(connections_by_user_id, connections[c].user_id)
          /\ c \in connections_by_user_id[connections[c].user_id].connection_ids
    /\ \A u \in DOMAIN connections_by_user_id :
          \A c \in connections_by_user_id[u].connection_ids :
              Has(connections, c) /\ connections[c].user_id = u

\* C7 witness: remove_connection has removed one of two connections of a
\* user, whose entry stays with the other connection.
C7_Witness ==
    /\ ret.op = "remove_connection" /\ ret.ok
    /\ Has(connections_by_user_id, ret.val.user_id)
    /\ connections_by_user_id[ret.val.user_id].connection_ids # {}
    /\ ~Has(connections, ret.args.connection_id)

\* C8: after every operation of any sequence of store operations channel
\* membership is bidirectional: every channel id in a connection's channels
\* is a channel that contains the connection, and every member of a channel
\* is a connection whose channels contain the channel.
C8_ChannelMembershipBidirectional ==
    /\ \A c \in DOMAIN connections :
          \A ch \in connections[c].channels :
              Has(channels, ch) /\ c \in channels[ch]
    /\ \A ch \in DOMAIN channels :
          \A c \in channels[ch] :
              Has(connections, c) /\ ch \in connections[c].channels

\* C9: no channel row has an empty member set.
C9_NoEmptyChannel ==
    \A ch \in DOMAIN channels : channels[ch] # {}

\* C9 witness: leave_channel has removed the last member of a channel, and
\* the row of that channel is gone.
C9_Witness ==
    /\ ret.op = "leave_channel"
    /\ Has(connections, ret.args.connection_id)
    /\ ~Has(channels, ret.args.channel_id)

\* The i-th pair of an accept is the smallest id >= 1 outside `active`, the
\* active replica ids when receipt i is processed.
SmallestFree(replica_id, active) ==
    /\ replica_id >= 1
    /\ replica_id \notin active
    /\ \A k \in 1..(replica_id - 1) : k \in active

RoomOf(users, u) == IF Has(users, u) THEN users[u].room ELSE RoomNone

\* The step is a successful call of op by a connection of user u.
ByConnectionOf(r, op, conns, u) ==
    /\ r.op = op /\ r.ok
    /\ Has(conns, r.args.connection_id)
    /\ conns[r.args.connection_id].user_id = u

\* The transitions of the room state of user u that the claim lists.
RoomTransitionAllowed(u) ==
    LET old == RoomOf(connections_by_user_id, u)
        new == RoomOf(connections_by_user_id', u)
    IN  \/ new = old
        \/ /\ old = RoomNone /\ new = Joined
           /\ ByConnectionOf(ret', "create_room", connections, u)
        \/ /\ old = RoomNone /\ new.tag = "Calling"
           /\ ret'.op = "call" /\ ret'.ok
           /\ ret'.args.room_id = new.room_id /\ ret'.args.user_id = u
        \/ /\ old.tag = "Calling" /\ new = Joined
           /\ ByConnectionOf(ret', "join_room", connections, u)
           /\ ret'.args.room_id = old.room_id
        \/ /\ old.tag = "Calling" /\ new = RoomNone
           /\ \/ ByConnectionOf(ret', "call_declined", connections, u)
              \/ /\ ret'.op = "call_failed" /\ ret'.ok
                 /\ ret'.args.room_id = old.room_id /\ ret'.args.user_id = u
        \/ /\ new = RoomNone
           /\ ByConnectionOf(ret', "remove_connection", connections, u)
           /\ ~Has(connections_by_user_id', u)

\* C11: a user's room state changes only by None -> Joined (create_room by
\* the user), None -> Calling{r} (call(r, _, user)), Calling{r} -> Joined
\* (join_room(r) by the user), Calling{r} -> None (call_declined by the user,
\* call_failed(r, user)) and any -> None (remove_connection of the user's
\* last connection); every one of them by a successful call.
C11_RoomStateTransitions ==
    [][\A u \in UserIds : RoomTransitionAllowed(u)]_vars

\* Both calls fail with the same error and leave the store as it was.
SameDenial(r, q) ==
    /\ ~r.ok /\ ~q.ok
    /\ r.val = q.val
    /\ r.store = Store /\ q.store = Store

\* A project id that is in no row of projects.
MissingProjectIds == (1..(MaxProjects + 1)) \ DOMAIN projects

\* The host-only operations, called by connection c that is not the host of
\* p, against the same calls on the missing project q.
HostOnlyDenials(p, q, c) ==
    /\ \A w \in WorktreeLists, online \in BOOLEAN :
          SameDenial(update_project(Store, p, w, online, c),
                     update_project(Store, q, w, online, c))
    /\ SameDenial(unregister_project(Store, p, c),
                  unregister_project(Store, q, c))
    /\ \A l \in LanguageServers, order \in KeyOrders :
          SameDenial(start_language_server(Store, p, c, l, order),
                     start_language_server(Store, q, c, l, order))

DiagnosticDenials(p, q, c) ==
    \A w \in WorktreeIds, m \in Summaries, order \in KeyOrders :
        SameDenial(update_diagnostic_summary(Store, p, w, c, m, order),
                   update_diagnostic_summary(Store, q, w, c, m, order))

\* The operations open to the host and the guests, called by a connection c
\* that is neither.
MemberOnlyDenials(p, q, c) ==
    /\ SameDenial(read_project(Store, p, c), read_project(Store, q, c))
    /\ \A order \in KeyOrders :
          SameDenial(project_connection_ids(Store, p, c, order),
                     project_connection_ids(Store, q, c, order))
    /\ SameDenial(register_project_activity(Store, p, c),
                  register_project_activity(Store, q, c))
    /\ \A w \in WorktreeIds, last \in BOOLEAN, order \in KeyOrders :
          SameDenial(update_worktree(Store, c, p, w, "r", <<>>, <<>>, 1, last, order),
                     update_worktree(Store, c, q, w, "r", <<>>, <<>>, 1, last, order))

\* request_join_project by any user from connection c on the offline project p.
OfflineRequestDenials(p, q, c) ==
    \A u \in UserIds :
        SameDenial(request_join_project(Store, u, p, Receipt(c)),
                   request_join_project(Store, u, q, Receipt(c)))

\* C12: a caller that is not entitled to a project gets, from read_project,
\* project_connection_ids, update_project, unregister_project,
\* update_diagnostic_summary, start_language_server, update_worktree,
\* register_project_activity, and from request_join_project on an offline
\* project, the same error and no state change whether the project exists
\* or not.
C12_DenialHidesExistence ==
    \A p \in DOMAIN projects, q \in MissingProjectIds, c \in ConnectionIds :
        /\ projects[p].host_connection_id # c
              => HostOnlyDenials(p, q, c) /\ DiagnosticDenials(p, q, c)
        /\ (projects[p].host_connection_id # c /\ ~Has(projects[p].guests, c))
              => MemberOnlyDenials(p, q, c)
        /\ ~projects[p].online => OfflineRequestDenials(p, q, c)

\* C13: add_connection(c, u, admin) for a c that is not present, followed at
\* once by remove_connection(c), succeeds and gives back exactly the store
\* before the add; the returned record has user_id = u and empty
\* hosted_projects, guest_project_ids and contact_ids.
C13_AddThenRemoveRestores ==
    [][(/\ ret'.op = "add_connection" /\ ret'.ok
        /\ ~Has(connections, ret'.args.connection_id)) =>
          LET removed == remove_connection(Store', ret'.args.connection_id)
          IN  /\ removed.ok
              /\ removed.store = Store
              /\ removed.val = [user_id |-> ret'.args.user_id,
                                hosted_projects |-> EmptyMap,
                                guest_project_ids |-> {},
                                contact_ids |-> {}]]_vars

\* The members of a channel in store s; none when the channel has no row.
Members(s, ch) == IF Has(s.channels, ch) THEN s.channels[ch] ELSE {}

\* Store s after n calls of join_channel(c, ch).
RECURSIVE JoinTimes(_, _, _, _)
JoinTimes(s, c, ch, n) ==
    IF n = 0 THEN s ELSE JoinTimes(join_channel(s, c, ch).store, c, ch, n - 1)

\* Stores s and t agree on what every connection other than c belongs to.
SameOtherMemberships(s, t, c) ==
    /\ \A ch \in ChannelIds : Members(s, ch) \ {c} = Members(t, ch) \ {c}
    /\ \A d \in DOMAIN s.connections \ {c} :
          Has(t.connections, d) /\ t.connections[d].channels = s.connections[d].channels

\* C14: join_channel is idempotent; leave_channel after any number of joins
\* leaves c out of the channel and the channel out of c's set, and a second
\* leave changes nothing; both do nothing for an unknown c; neither changes
\* what other connections belong to.
C14_JoinLeaveChannel ==
    \A c \in ConnectionIds, ch \in ChannelIds :
        LET joined == join_channel(Store, c, ch).store
        IN  /\ join_channel(joined, c, ch).store = joined
            /\ SameOtherMemberships(Store, joined, c)
            /\ ~Has(connections, c) =>
                   /\ joined = Store
                   /\ leave_channel(Store, c, ch).store = Store
            /\ \A n \in 0..2 :
                  LET left == leave_channel(JoinTimes(Store, c, ch, n), c, ch).store
                  IN  /\ c \notin Members(left, ch)
                      /\ Has(left.connections, c) =>
                             ch \notin left.connections[c].channels
                      /\ leave_channel(left, c, ch).store = left
                      /\ SameOtherMemberships(Store, left, c)

\* C15: when deny_join_project_request(host, u, p) returns Some(receipts),
\* the project has no join_requests entry for u, the returned list is the
\* list that was stored, no connection of user u has p in requested_projects,
\* and guests and active_replica_ids are as before.
C15_DenyClearsRequest ==
    [][(projects' # projects /\ ret'.op = "deny_join_project_request" /\ ret'.ok) =>
          LET u == ret'.args.user_id
              p == ret'.args.project_id
          IN  /\ ~Has(projects'[p].join_requests, u)
              /\ ret'.val = projects[p].join_requests[u]
              /\ \A c \in DOMAIN connections' :
                    connections'[c].user_id = u =>
                        p \notin connections'[c].requested_projects
              /\ projects'[p].guests = projects[p].guests
              /\ projects'[p].active_replica_ids = projects[p].active_replica_ids]_vars

\* C16: when accept_join_project_request(host, u, p) returns
\* Some(pairs, project), every receipt that was stored for u is in exactly
\* one pair, the replica ids of the pairs are pairwise distinct, each pair's
\* sender is a guest with the paired replica id and user id u, has p in
\* projects and not in requested_projects, and p has no join_requests entry
\* for u.
C16_AcceptPromotesReceipts ==
    [][(projects' # projects /\ ret'.op = "accept_join_project_request" /\ ret'.ok) =>
          LET u == ret'.args.user_id
              p == ret'.args.project_id
              pairs == ret'.val.pairs
              stored == projects[p].join_requests[u]
          IN  /\ Len(pairs) = Len(stored)
              /\ \A i \in 1..Len(pairs) : pairs[i][1] = stored[i]
              /\ \A i, j \in 1..Len(pairs) : i # j => pairs[i][2] # pairs[j][2]
              /\ \A i \in 1..Len(pairs) :
                    LET sender == pairs[i][1].sender_id
                    IN  /\ Has(projects'[p].guests, sender)
                        /\ projects'[p].guests[sender].replica_id = pairs[i][2]
                        /\ projects'[p].guests[sender].user_id = u
                        /\ p \in connections'[sender].projects
                        /\ p \notin connections'[sender].requested_projects
              /\ ~Has(projects'[p].join_requests, u)]_vars

\* C17: leave_project(c, p) by the host c of p keeps the project row with the
\* same host_connection_id and guests, keeps p in c's projects set, and a
\* later remove_connection(c) or unregister_project(p, c) still removes the
\* project.
C17_HostLeaveIsBenign ==
    [][(/\ ret'.op = "leave_project" /\ ret'.ok
        /\ Has(projects, ret'.args.project_id)
        /\ projects[ret'.args.project_id].host_connection_id
               = ret'.args.connection_id) =>
          LET c == ret'.args.connection_id
              p == ret'.args.project_id
          IN  /\ Has(projects', p)
              /\ projects'[p].host_connection_id = c
              /\ projects'[p].guests = projects[p].guests
              /\ p \in connections'[c].projects
              /\ ~Has(remove_connection(Store', c).store.projects, p)
              /\ unregister_project(Store', p, c).ok
              /\ ~Has(unregister_project(Store', p, c).store.projects, p)]_vars

\* C18: when remove_connection(c) succeeds, no project that c hosted remains
\* and each is returned in hosted_projects; every project where c was a
\* guest and not the host is in guest_project_ids, has lost c from guests and
\* has c's replica id freed; no remaining connection has a removed project
\* in its projects set.
C18_RemoveConnectionUnwindsProjects ==
    [][(ret'.op = "remove_connection" /\ ret'.ok
        /\ Has(connections, ret'.args.connection_id)) =>
          LET c == ret'.args.connection_id
          IN  /\ \A p \in DOMAIN projects :
                    projects[p].host_connection_id = c =>
                        /\ ~Has(projects', p)
                        /\ Has(ret'.val.hosted_projects, p)
              /\ \A p \in DOMAIN projects :
                    (Has(projects[p].guests, c) /\ projects[p].host_connection_id # c) =>
                        /\ p \in ret'.val.guest_project_ids
                        /\ Has(projects', p)
                        /\ ~Has(projects'[p].guests, c)
                        /\ projects[p].guests[c].replica_id
                               \notin projects'[p].active_replica_ids
              /\ \A p \in DOMAIN projects \ DOMAIN projects' :
                    \A d \in DOMAIN connections' : p \notin connections'[d].projects]_vars

\* C19: update_project(p, worktrees, online = false, host) on an online
\* project leaves p in no projects set but the host's and in no
\* requested_projects set, empties guests, join_requests and
\* active_replica_ids, and returns the guests and join requests the project
\* had; when the flag stays or goes from false to true the call returns None
\* and changes no guest or request bookkeeping.
C19_UpdateProjectOffline ==
    \A p \in DOMAIN projects, w \in WorktreeLists, online \in BOOLEAN :
        LET host == projects[p].host_connection_id
            r == update_project(Store, p, w, online, host)
            after == r.store.projects[p]
        IN  /\ r.ok
            /\ IF projects[p].online /\ ~online
               THEN /\ \A c \in DOMAIN r.store.connections :
                          /\ c # host => p \notin r.store.connections[c].projects
                          /\ p \notin r.store.connections[c].requested_projects
                    /\ after.guests = EmptyMap
                    /\ after.join_requests = EmptyMap
                    /\ after.active_replica_ids = {}
                    /\ r.val = [guests |-> projects[p].guests,
                                pending_join_requests |-> projects[p].join_requests]
               ELSE /\ r.val = "None"
                    /\ after.guests = projects[p].guests
                    /\ after.join_requests = projects[p].join_requests
                    /\ after.active_replica_ids = projects[p].active_replica_ids
                    /\ r.store.connections = connections

\* C20: when unregister_project(p, c) succeeds (c is the host of p), p is no
\* key of projects and no connection has p in its projects set or in its
\* requested_projects set; the call fails and changes nothing when p is
\* missing or c is not the host.
C20_UnregisterScrubsProject ==
    \A p \in ProjectIds, c \in ConnectionIds :
        LET r == unregister_project(Store, p, c)
        IN  IF Has(projects, p) /\ projects[p].host_connection_id = c
            THEN /\ r.ok
                 /\ ~Has(r.store.projects, p)
                 /\ \A d \in DOMAIN r.store.connections :
                       /\ p \notin r.store.connections[d].projects
                       /\ p \notin r.store.connections[d].requested_projects
            ELSE ~r.ok /\ r.store = Store

\* The receipts stored for user u in a join_requests map; none without a row.
ReceiptsOf(join_requests, u) ==
    IF Has(join_requests, u) THEN join_requests[u] ELSE <<>>

\* C21: leave_project(c, p) removes from the receipts of c's user u exactly
\* those whose sender_id is c and keeps the others in order; cancel_request
\* is Some(u) exactly when u had a join_requests entry before and no receipt
\* of u remains, and then the entry is dropped; it is None otherwise.
C21_LeaveCancelsOwnReceipts ==
    \A c \in DOMAIN connections, p \in DOMAIN projects, order \in KeyOrders :
        LET u == connections[c].user_id
            r == leave_project(Store, c, p, order)
            before == projects[p].join_requests
            after == r.store.projects[p].join_requests
            kept == [i \in 1..Len(ReceiptsOf(after, u)) |-> ReceiptsOf(after, u)[i]]
        IN  /\ r.ok
            /\ \A i \in 1..Len(kept) : kept[i].sender_id # c
            /\ Len(kept) = Cardinality({i \in 1..Len(ReceiptsOf(before, u)) :
                                           ReceiptsOf(before, u)[i].sender_id # c})
            /\ \A i, j \in 1..Len(ReceiptsOf(before, u)) :
                  (i < j /\ ReceiptsOf(before, u)[i].sender_id # c
                         /\ ReceiptsOf(before, u)[j].sender_id # c) =>
                     \E a, b \in 1..Len(kept) :
                        a < b /\ kept[a] = ReceiptsOf(before, u)[i]
                              /\ kept[b] = ReceiptsOf(before, u)[j]
            /\ \A i \in 1..Len(kept) : kept[i] \in Range(ReceiptsOf(before, u))
            /\ (r.val.cancel_request = <<u>>) <=> (Has(before, u) /\ kept = <<>>)
            /\ r.val.cancel_request \in {<<u>>, <<>>}
            /\ Has(after, u) <=> kept # <<>>
            /\ \A v \in DOMAIN before \ {u} : Has(after, v) /\ after[v] = before[v]

\* leave_project has just withdrawn the receipt of one connection of a user
\* whose other connection still has its receipt stored: no cancellation.
C21_Witness ==
    /\ ret.op = "leave_project" /\ ret.ok
    /\ ret.val.cancel_request = <<>>
    /\ Has(connections, ret.args.connection_id)
    /\ ret.args.project_id \in connections[ret.args.connection_id].requested_projects
    /\ LET u == connections[ret.args.connection_id].user_id
           stored == ReceiptsOf(projects[ret.args.project_id].join_requests, u)
       IN  /\ stored # <<>>
           /\ \A i \in 1..Len(stored) : stored[i].sender_id # ret.args.connection_id

\* C22: the connection_ids that a successful leave_project(c, p) returns are
\* the project's host_connection_id plus the keys of guests after the
\* removal, so a guest c that has just left is not in the list; unshare is
\* true exactly when the list has at most one element and join_requests is
\* empty after the call.
C22_LeaveReturnsStateAfter ==
    \A c \in ConnectionIds, p \in ProjectIds, order \in KeyOrders :
        LET r == leave_project(Store, c, p, order)
        IN  r.ok =>
              LET after == r.store.projects[p]
                  ids == r.val.connection_ids
              IN  /\ Range(ids) = {after.host_connection_id} \cup DOMAIN after.guests
                  /\ Has(projects[p].guests, c) => c \notin Range(ids)
                  /\ r.val.unshare <=>
                        (Len(ids) <= 1 /\ DOMAIN after.join_requests = {})

\* Room ids in use and one that has never been created.
RoomIds == 0..MaxRooms

\* C23: no user id is twice in a room's pending_user_ids; call(r, from, u)
\* fails and changes nothing when u is already pending in r, when u's room
\* state is not None, when from is no participant peer of r, when r does not
\* exist or when u has no connection; a successful call appends u once and
\* sets u's state to Calling{r}.
C23_CallInvitesOnce ==
    /\ \A r \in DOMAIN rooms :
          \A i, j \in 1..Len(rooms[r].pending_user_ids) :
              i # j => rooms[r].pending_user_ids[i] # rooms[r].pending_user_ids[j]
    /\ \A r \in RoomIds, from \in ConnectionIds, u \in UserIds :
          LET res == call(Store, r, from, u)
              refused ==
                 \/ ~Has(rooms, r)
                 \/ ~Has(connections_by_user_id, u)
                 \/ connections_by_user_id[u].room # RoomNone
                 \/ from \notin {rooms[r].participants[i].peer_id :
                                    i \in 1..Len(rooms[r].participants)}
                 \/ u \in Range(rooms[r].pending_user_ids)
          IN  /\ refused => (~res.ok /\ res.store = Store)
              /\ res.ok =>
                    /\ res.store.rooms[r].pending_user_ids
                           = Append(rooms[r].pending_user_ids, u)
                    /\ res.store.connections_by_user_id[u].room = Calling(r)
                    /\ res.store.rooms[r].participants = rooms[r].participants
              /\ ~res.ok => res.store = Store

\* call has just invited a user into a room where another user id is still
\* pending from before that user reconnected; the other user's state is None,
\* so a call to that user is refused only because the id is already pending.
C23_Witness ==
    /\ ret.op = "call" /\ ret.ok
    /\ connections_by_user_id[ret.args.user_id].room = Calling(ret.args.room_id)
    /\ \E v \in DOMAIN connections_by_user_id \ {ret.args.user_id} :
          /\ v \in Range(rooms[ret.args.room_id].pending_user_ids)
          /\ connections_by_user_id[v].room = RoomNone
          /\ ~call(Store, ret.args.room_id, ret.args.connection_id, v).ok

\* Store s after a successful call_failed or call_declined that took user u
\* out of Calling{r}, seen from the store `before`: u's state is None, u is
\* not pending in r, and no room's participants have changed.
InvitationEnded(before, s, r, u) ==
    /\ s.connections_by_user_id[u].room = RoomNone
    /\ u \notin Range(s.rooms[r].pending_user_ids)
    /\ DOMAIN s.rooms = DOMAIN before.rooms
    /\ \A x \in DOMAIN before.rooms :
          s.rooms[x].participants = before.rooms[x].participants

\* C24: a successful call_failed(r, u), or call_declined(c) by a connection
\* of user u in state Calling{r}, leaves u's state None, u out of
\* rooms[r].pending_user_ids and every room's participants unchanged; the
\* same call made again at once fails and changes nothing; call_declined
\* returns all of u's current connection ids.
C24_InvitationEnds ==
    /\ \A r \in RoomIds, u \in UserIds :
          LET res == call_failed(Store, r, u)
              again == call_failed(res.store, r, u)
          IN  res.ok =>
                /\ connections_by_user_id[u].room = Calling(r)
                /\ InvitationEnded(Store, res.store, r, u)
                /\ ~again.ok /\ again.store = res.store
    /\ \A c \in ConnectionIds :
          LET res == call_declined(Store, c)
              again == call_declined(res.store, c)
          IN  res.ok =>
                LET u == connections[c].user_id
                    r == connections_by_user_id[u].room.room_id
                IN  /\ connections_by_user_id[u].room.tag = "Calling"
                    /\ InvitationEnded(Store, res.store, r, u)
                    /\ ~again.ok /\ again.store = res.store
                    /\ res.val.connection_ids =
                          {d \in DOMAIN connections : connections[d].user_id = u}

\* C25: join_room(r, c) succeeds only for a known connection c, an existing
\* room r, with c's user in rooms[r].pending_user_ids and in state None or
\* Calling{r}; on success the user id has left the pending list, exactly one
\* participant with peer id c and that user id has been appended, the user's
\* state is Joined, no other room has changed, and the returned connections
\* are all the connections of that user.
C25_JoinRoom ==
    \A r \in RoomIds, c \in ConnectionIds :
        LET res == join_room(Store, r, c)
        IN  res.ok =>
              /\ Has(connections, c)
              /\ Has(rooms, r)
              /\ LET u == connections[c].user_id
                     joined == res.store.rooms[r].participants
                 IN  /\ u \in Range(rooms[r].pending_user_ids)
                     /\ connections_by_user_id[u].room \in {RoomNone, Calling(r)}
                     /\ u \notin Range(res.store.rooms[r].pending_user_ids)
                     /\ Len(joined) = Len(rooms[r].participants) + 1
                     /\ SubSeq(joined, 1, Len(joined) - 1) = rooms[r].participants
                     /\ joined[Len(joined)].peer_id = c
                     /\ joined[Len(joined)].user_id = u
                     /\ res.store.connections_by_user_id[u].room = Joined
                     /\ DOMAIN res.store.rooms = DOMAIN rooms
                     /\ \A x \in DOMAIN rooms \ {r} : res.store.rooms[x] = rooms[x]
                     /\ res.val.connection_ids =
                           {d \in DOMAIN connections : connections[d].user_id = u}

\* C26: an offline project has empty guests, join_requests and
\* active_replica_ids; request_join_project stores no receipt on it and no
\* accept_join_project_request makes a connection its guest.
C26_OfflineProjectIsEmpty ==
    \A p \in DOMAIN projects :
        ~projects[p].online =>
            /\ projects[p].guests = EmptyMap
            /\ projects[p].join_requests = EmptyMap
            /\ projects[p].active_replica_ids = {}
            /\ \A u \in UserIds, c \in ConnectionIds :
                  LET r == request_join_project(Store, u, p, Receipt(c))
                  IN  ~r.ok /\ r.store = Store
            /\ \A u \in UserIds, c \in ConnectionIds :
                  LET r == accept_join_project_request(Store, c, u, p)
                  IN  ~r.ok /\ r.store = Store

\* A project is offline after update_project(online = false) while a
\* connection that had asked to join it is still connected.
C26_Witness ==
    /\ ret.op = "update_project" /\ ret.ok /\ ~ret.args.online
    /\ Has(projects, ret.args.project_id)
    /\ ~projects[ret.args.project_id].online
    /\ \E c \in DOMAIN connections :
          ret.args.project_id \in connections[c].requested_projects


\* C27: requested_projects mirrors the pending requests: every project id in
\* a connection's requested_projects is a project with a stored receipt sent
\* by that connection, and every stored receipt whose sender is a live
\* connection has its project in the sender's requested_projects.
C27_RequestedProjectsMirror ==
    /\ \A c \in DOMAIN connections :
          \A p \in connections[c].requested_projects :
              /\ Has(projects, p)
              /\ \E u \in DOMAIN projects[p].join_requests :
                    \E i \in 1..Len(projects[p].join_requests[u]) :
                        projects[p].join_requests[u][i].sender_id = c
    /\ \A p \in DOMAIN projects :
          \A u \in DOMAIN projects[p].join_requests :
              \A i \in 1..Len(projects[p].join_requests[u]) :
                  LET sender == projects[p].join_requests[u][i].sender_id
                  IN  Has(connections, sender) =>
                          p \in connections[sender].requested_projects

\* C28: leave_project(c, p) by a known connection c that is neither the host
\* nor a guest of p, and whose user has no pending join request on p, leaves
\* the project unchanged: guests, join_requests, language_servers and every
\* worktree's entries and diagnostic_summaries.
C28_StrangerLeaveChangesNothing ==
    \A c \in DOMAIN connections, p \in DOMAIN projects, order \in KeyOrders :
        (/\ projects[p].host_connection_id # c
         /\ ~Has(projects[p].guests, c)
         /\ ~Has(projects[p].join_requests, connections[c].user_id)) =>
            LET after == leave_project(Store, c, p, order).store.projects[p]
            IN  /\ after.guests = projects[p].guests
                /\ after.join_requests = projects[p].join_requests
                /\ after.language_servers = projects[p].language_servers
                /\ DOMAIN after.worktrees = DOMAIN projects[p].worktrees
                /\ \A w \in DOMAIN projects[p].worktrees :
                      /\ after.worktrees[w].entries = projects[p].worktrees[w].entries
                      /\ after.worktrees[w].diagnostic_summaries
                             = projects[p].worktrees[w].diagnostic_summaries

\* The guests of project p in a projects table; none when p has no row.
GuestsOf(table, p) == IF Has(table, p) THEN DOMAIN table[p].guests ELSE {}

\* C29: a connection g becomes a key of a project's guests only in a step
\* that is accept_join_project_request(responder, u, p) with responder the
\* project's host_connection_id and with a receipt sent by g stored in
\* join_requests[u] just before the step; accept and deny called by a
\* connection other than the host return None and change nothing.
C29_GuestsOnlyByHostAccept ==
    [][/\ \A p \in ProjectIds :
             \A g \in GuestsOf(projects', p) \ GuestsOf(projects, p) :
                 /\ ret'.op = "accept_join_project_request"
                 /\ ret'.args.project_id = p
                 /\ Has(projects, p)
                 /\ ret'.args.connection_id = projects[p].host_connection_id
                 /\ Has(projects[p].join_requests, ret'.args.user_id)
                 /\ \E i \in 1..Len(projects[p].join_requests[ret'.args.user_id]) :
                       projects[p].join_requests[ret'.args.user_id][i].sender_id = g
       /\ \A p \in DOMAIN projects, c \in ConnectionIds, u \in UserIds :
             c # projects[p].host_connection_id =>
                 /\ accept_join_project_request(Store, c, u, p) = Err(Store, "None")
                 /\ deny_join_project_request(Store, c, u, p) = Err(Store, "None")
      ]_vars

\* The host has just accepted the request of another connection, which is
\* now a guest, while a connection that is not the host is also connected.
C29_Witness ==
    /\ ret.op = "accept_join_project_request" /\ ret.ok
    /\ Has(projects, ret.args.project_id)
    /\ projects[ret.args.project_id].host_connection_id = ret.args.connection_id
    /\ \E g \in DOMAIN projects[ret.args.project_id].guests :
          /\ g # ret.args.connection_id
          /\ Has(connections, g)

====
